---- MODULE Spec2Model ----
(***************************************************************************)
(* The palindrome checker of strands_multi_agent_example/                  *)
(* palindrome_checker.py: is_palindrome (normalise, then reverse and       *)
(* compare), is_palindrome_simple (reverse and compare) and the loop of    *)
(* demonstrate_palindromes that calls both on each test string.            *)
(*                                                                         *)
(* A Python str is modelled as a sequence of characters; a character is a  *)
(* one-element string, or the name of its code point where the character   *)
(* is not ASCII.                                                           *)
(***************************************************************************)
EXTENDS Integers, Sequences, FiniteSets, TLC

----------------------------------------------------------------------------
(* The character model: str.isalnum and str.lower of the host.             *)

\* U+0130 LATIN CAPITAL LETTER I WITH DOT ABOVE: alphanumeric, and the one
\* alphanumeric character whose lower() is two characters long.
I_DOT == "U+0130"

\* U+0307 COMBINING DOT ABOVE: category Mn, not alphanumeric.
COMB_DOT == "U+0307"

\* U+03D2 GREEK UPSILON WITH HOOK SYMBOL: alphanumeric, upper-case, and
\* without a lower-case mapping (lower() returns it unchanged).
UPSILON_HOOK == "U+03D2"

LowerLetters ==
    <<"a", "b", "c", "d", "e", "f", "g", "h", "i", "j", "k", "l", "m",
      "n", "o", "p", "q", "r", "s", "t", "u", "v", "w", "x", "y", "z">>

UpperLetters ==
    <<"A", "B", "C", "D", "E", "F", "G", "H", "I", "J", "K", "L", "M",
      "N", "O", "P", "Q", "R", "S", "T", "U", "V", "W", "X", "Y", "Z">>

Digits == {"0", "1", "2", "3", "4", "5", "6", "7", "8", "9"}

Range(f) == {f[k] : k \in DOMAIN f}

\* char.isalnum()
IsAlnum(ch) ==
    ch \in Range(LowerLetters) \cup Range(UpperLetters) \cup Digits
           \cup {I_DOT, UPSILON_HOOK}

\* char.lower(): a str, not a character
Lower(ch) ==
    IF ch \in Range(UpperLetters)
    THEN <<LowerLetters[CHOOSE k \in DOMAIN UpperLetters : UpperLetters[k] = ch]>>
    ELSE IF ch = I_DOT THEN <<"i", COMB_DOT>>
    ELSE <<ch>>

\* s[-2::-1]: the reverse that starts one character early
ReverseDropLast(s) == [k \in 1..(Len(s) - 1) |-> s[Len(s) - k]]

\* s[:0:-1]: the reverse that stops one character early
ReverseDropFirst(s) == [k \in 1..(Len(s) - 1) |-> s[Len(s) + 1 - k]]

\* the reverse that exchanges the two ends only
ReverseEndsOnly(s) ==
    [k \in 1..Len(s) |->
        IF k = 1 THEN s[Len(s)] ELSE IF k = Len(s) THEN s[1] ELSE s[k]]

\* s[::-1]
Reverse(s) == [k \in 1..Len(s) |-> s[Len(s) + 1 - k]]

\* the generator without .lower()
GenItemKeepCase(ch) == IF IsAlnum(ch) THEN <<ch>> ELSE <<>>

\* What the generator expression of line 36 hands to join for one character
\* of text: char.lower() if char.isalnum(), nothing otherwise.
GenItem(ch) == IF IsAlnum(ch) THEN Lower(ch) ELSE <<>>

\* ''.join(char.lower() for char in text if char.isalnum()), left to right
RECURSIVE JoinFrom(_, _, _)
JoinFrom(text, k, acc) ==
    IF k > Len(text) THEN acc
    ELSE JoinFrom(text, k + 1, acc \o GenItem(text[k]))

Join(text) == JoinFrom(text, 1, <<>>)

is_palindrome(text) ==
    LET c == Join(text) IN c = Reverse(c)

\* the exact check made to fold case and drop punctuation
is_palindrome_simple_cleaned(text) == is_palindrome(text)

is_palindrome_simple(text) == text = Reverse(text)

----------------------------------------------------------------------------
(* The inputs.                                                             *)

\* test_cases of demonstrate_palindromes
T_racecar == <<"r", "a", "c", "e", "c", "a", "r">>
T_panama ==
    <<"A", " ", "m", "a", "n", " ", "a", " ", "p", "l", "a", "n", " ", "a",
      " ", "c", "a", "n", "a", "l", " ", "P", "a", "n", "a", "m", "a">>
T_race_a_car == <<"r", "a", "c", "e", " ", "a", " ", "c", "a", "r">>
T_Madam == <<"M", "a", "d", "a", "m">>
T_was_it ==
    <<"W", "a", "s", " ", "i", "t", " ", "a", " ", "c", "a", "r", " ", "o",
      "r", " ", "a", " ", "c", "a", "t", " ", "I", " ", "s", "a", "w", "?">>
T_hello_world == <<"h", "e", "l", "l", "o", " ", "w", "o", "r", "l", "d">>
T_12321 == <<"1", "2", "3", "2", "1">>
T_12345 == <<"1", "2", "3", "4", "5">>

test_cases ==
    {T_racecar, T_panama, T_race_a_car, T_Madam, T_was_it, T_hello_world,
     T_12321, T_12345}

\* the doctest inputs that test_cases does not hold
D_hello == <<"h", "e", "l", "l", "o">>
D_Racecar == <<"R", "a", "c", "e", "c", "a", "r">>

\* Every str over Alphabet of at most MaxLen characters.
MaxLen == 3

Alphabet == {"a", "A", "b", "1", " ", ",", I_DOT, COMB_DOT, UPSILON_HOOK}

Texts == UNION {[1..n -> Alphabet] : n \in 0..MaxLen}

Inputs == Texts \cup test_cases \cup {D_hello, D_Racecar}

\* Concurrent callers and the strings they pass.
NumThreads == 2

MaxConcLen == 2

ConcAlphabet == {"A", "b"}

ConcTexts == UNION {[1..n -> ConcAlphabet] : n \in 0..MaxConcLen}

----------------------------------------------------------------------------
(* The state: one frame per caller.                                        *)

VARIABLES
    test,           \* the str the caller passes (the loop variable, line 84)
    pc,             \* where the caller is
    it,             \* the generator's position in text (line 36)
    cleaned,        \* the local of is_palindrome, while join builds it
    result,         \* line 85
    simple_result,  \* line 86
    shown           \* the cleaned version line 94 prints

vars == <<test, pc, it, cleaned, result, simple_result, shown>>

None == "None"

Frames(T) ==
    /\ pc = [t \in T |-> "join"]
    /\ it = [t \in T |-> 1]
    /\ cleaned = [t \in T |-> <<>>]
    /\ result = [t \in T |-> None]
    /\ simple_result = [t \in T |-> None]
    /\ shown = [t \in T |-> None]

\* One caller, any input.
Init ==
    /\ test \in [{1} -> Inputs]
    /\ Frames({1})

\* NumThreads callers at once.
InitConc ==
    /\ test \in [1..NumThreads -> ConcTexts]
    /\ Frames(1..NumThreads)

\* cleaned as a buffer of the module, one for all callers
SharedAppend(frames, t, piece) == [u \in DOMAIN frames |-> frames[t] \o piece]

\* cleaned is a local: a caller appends to the one of its own frame.
LocalAppend(frames, t, piece) == [frames EXCEPT ![t] = @ \o piece]

\* line 36, one iteration of the generator
JoinNext(t) ==
    /\ pc[t] = "join"
    /\ it[t] <= Len(test[t])
    /\ cleaned' = LocalAppend(cleaned, t, GenItem(test[t][it[t]]))
    /\ it' = [it EXCEPT ![t] = @ + 1]
    /\ UNCHANGED <<test, pc, result, simple_result, shown>>

\* line 36, the generator is exhausted
JoinEnd(t) ==
    /\ pc[t] = "join"
    /\ it[t] > Len(test[t])
    /\ pc' = [pc EXCEPT ![t] = "compare"]
    /\ UNCHANGED <<test, it, cleaned, result, simple_result, shown>>

\* line 39, and the assignment of line 85
Compare(t) ==
    /\ pc[t] = "compare"
    /\ result' = [result EXCEPT ![t] = (cleaned[t] = Reverse(cleaned[t]))]
    /\ pc' = [pc EXCEPT ![t] = "simple"]
    /\ UNCHANGED <<test, it, cleaned, simple_result, shown>>

\* line 63, and the assignment of line 86
Simple(t) ==
    /\ pc[t] = "simple"
    /\ simple_result' = [simple_result EXCEPT ![t] = is_palindrome_simple(test[t])]
    /\ pc' = [pc EXCEPT ![t] = "report"]
    /\ UNCHANGED <<test, it, cleaned, result, shown>>

\* lines 92 to 94
Report(t) ==
    /\ pc[t] = "report"
    /\ shown' = [shown EXCEPT ![t] = IF result[t] THEN Join(test[t]) ELSE None]
    /\ pc' = [pc EXCEPT ![t] = "done"]
    /\ UNCHANGED <<test, it, cleaned, result, simple_result>>

Next ==
    \/ \E t \in DOMAIN pc : JoinNext(t)
    \/ \E t \in DOMAIN pc : JoinEnd(t)
    \/ \E t \in DOMAIN pc : Compare(t)
    \/ \E t \in DOMAIN pc : Simple(t)
    \/ \E t \in DOMAIN pc : Report(t)

Spec == Init /\ [][Next]_vars

SpecConc == InitConc /\ [][Next]_vars

----------------------------------------------------------------------------
(* What the properties below are stated with.                              *)

\* result[t] and simple_result[t] hold a verdict
HasResult(t) == pc[t] \in {"simple", "report", "done"}

HasSimple(t) == pc[t] \in {"report", "done"}

\* join has consumed all of text
Joined(t) == pc[t] # "join"

\* s[k] = s[len-1-k] at every index (indices from 1 here)
MirrorEqual(s) == \A k \in 1..Len(s) : s[k] = s[Len(s) + 1 - k]

RECURSIVE Flatten(_)
Flatten(ss) == IF ss = <<>> THEN <<>> ELSE Head(ss) \o Flatten(Tail(ss))

\* the alphanumeric characters of text, in order, each lower-cased
KeptLowered(text) ==
    LET kept == SelectSeq(text, IsAlnum)
    IN  Flatten([k \in 1..Len(kept) |-> Lower(kept[k])])

AlnumCount(text) == Cardinality({k \in 1..Len(text) : IsAlnum(text[k])})

\* str.isupper() of one character
IsUpper(ch) == ch \in Range(UpperLetters) \cup {I_DOT, UPSILON_HOOK}

\* alphanumeric and not upper-case (so neither whitespace nor punctuation)
Canonical(ch) == IsAlnum(ch) /\ ~IsUpper(ch)

\* The two-pointer walk: one index at each end, inward, FALSE at the first
\* mismatch, TRUE once the indices meet or cross; steps counts comparisons.
RECURSIVE Walk(_, _, _, _)
Walk(s, lo, hi, n) ==
    IF lo >= hi THEN [verdict |-> TRUE, steps |-> n]
    ELSE IF s[lo] # s[hi] THEN [verdict |-> FALSE, steps |-> n + 1]
    ELSE Walk(s, lo + 1, hi - 1, n + 1)

TwoPointer(s) == Walk(s, 1, Len(s), 0)

----------------------------------------------------------------------------
(* The properties.                                                         *)

\* C1: is_palindrome(text) is TRUE exactly when the alphanumeric characters
\* of text, in order and each lower-cased, read the same in both directions;
\* "racecar" and "A man a plan a canal Panama" give TRUE, "race a car" and
\* "hello" give FALSE.
C1_IsPalindromeIsSymmetricOfNormalized ==
    \A t \in DOMAIN pc :
        HasResult(t) =>
            /\ result[t] = MirrorEqual(KeptLowered(test[t]))
            /\ test[t] \in {T_racecar, T_panama} => result[t] = TRUE
            /\ test[t] \in {T_race_a_car, D_hello} => result[t] = FALSE

C1_Witness ==
    /\ pc[1] = "done"
    /\ test[1] = T_panama
    /\ cleaned[1] # test[1]
    /\ result[1] = TRUE

\* C2: is_palindrome_simple(text) is TRUE exactly when text[i] equals
\* text[len-1-i] at every index, with no normalization: "racecar" and
\* "12321" give TRUE, "Racecar" gives FALSE.
C2_SimpleIsExactMirror ==
    \A t \in DOMAIN pc :
        HasSimple(t) =>
            /\ simple_result[t] = MirrorEqual(test[t])
            /\ test[t] \in {T_racecar, T_12321} => simple_result[t] = TRUE
            /\ test[t] = D_Racecar => simple_result[t] = FALSE

C2_Witness ==
    /\ pc[1] = "done"
    /\ test[1] = D_Racecar
    /\ simple_result[1] = FALSE
    /\ result[1] = TRUE

\* C3: whenever is_palindrome_simple(s) is TRUE, is_palindrome(s) is TRUE.
C3_ExactImpliesPalindrome ==
    \A t \in DOMAIN pc :
        HasSimple(t) => (simple_result[t] => result[t])

\* C4: normalization is idempotent (normalizing cleaned gives cleaned again),
\* and is_palindrome gives the same verdict on s and on normalize(s).
C4_NormalizeIdempotent ==
    \A t \in DOMAIN pc :
        HasResult(t) =>
            /\ Join(cleaned[t]) = cleaned[t]
            /\ is_palindrome(cleaned[t]) = result[t]

\* C5: the reverse-and-compare test is TRUE on the empty sequence and on
\* every sequence of one character, on text (is_palindrome_simple) and on
\* cleaned (is_palindrome) alike.
C5_EmptyAndSingleSymmetric ==
    \A t \in DOMAIN pc :
        /\ HasSimple(t) /\ Len(test[t]) <= 1 => simple_result[t] = TRUE
        /\ HasResult(t) /\ Len(cleaned[t]) <= 1 => result[t] = TRUE

C5_Witness ==
    /\ pc[1] = "done"
    /\ Len(test[1]) = 1
    /\ Len(cleaned[1]) = 1
    /\ simple_result[1] = TRUE
    /\ result[1] = TRUE

\* C6: the symmetry test gives the same verdict on s and on reverse(s).
C6_SymmetricUnderReversal ==
    \A t \in DOMAIN pc :
        HasSimple(t) =>
            simple_result[t] = is_palindrome_simple(Reverse(test[t]))

C6_Witness ==
    /\ pc[1] = "done"
    /\ Reverse(test[1]) # test[1]
    /\ simple_result[1] = FALSE
    /\ is_palindrome_simple(Reverse(test[1])) = FALSE

\* C7: calls running concurrently each return the verdict their own input
\* determines: in every interleaving a caller's results are those of the
\* same calls made alone, a step of one caller leaves every other caller's
\* frame as it was, and no step changes a caller's input.
C7_Verdicts ==
    \A t \in DOMAIN pc :
        /\ HasResult(t) => result[t] = is_palindrome(test[t])
        /\ HasSimple(t) => simple_result[t] = is_palindrome_simple(test[t])
        /\ Joined(t) => cleaned[t] = Join(test[t])

Frame(t) == <<pc[t], it[t], cleaned[t], result[t], simple_result[t], shown[t]>>

C7_ConcurrentCallsIsolated ==
    /\ []C7_Verdicts
    /\ [][/\ test' = test
          /\ \E t \in DOMAIN pc : \A u \in DOMAIN pc \ {t} : Frame(u)' = Frame(u)]_vars

\* two callers interleaved: the second has finished while the first is
\* still joining, and their verdicts differ
C7_Witness ==
    /\ pc[1] = "join"
    /\ it[1] = 2
    /\ pc[2] = "done"
    /\ result[2] = FALSE
    /\ test[1] = <<"A", "A">>

\* C8: every character of cleaned is alphanumeric and lower-case: cleaned
\* holds no whitespace, no punctuation and no upper-case character.
C8_CleanedCanonical ==
    \A t \in DOMAIN pc :
        \A k \in 1..Len(cleaned[t]) : Canonical(cleaned[t][k])

\* C9: cleaned is the lower-cased image of the alphanumeric characters of
\* text in their order, it has as many characters as text has alphanumeric
\* ones, and a text without alphanumeric characters gives the empty cleaned.
C9_CleanedIsFilteredImage ==
    \A t \in DOMAIN pc :
        Joined(t) =>
            /\ cleaned[t] = KeptLowered(test[t])
            /\ Len(cleaned[t]) = AlnumCount(test[t])
            /\ AlnumCount(test[t]) = 0 => cleaned[t] = <<>>

\* C10: the two-pointer walk ends after at most len/2 comparisons and gives
\* the verdict of reverse-and-compare, on text and on cleaned.
C10_TwoPointerAgrees ==
    \A t \in DOMAIN pc :
        /\ HasSimple(t) =>
              /\ TwoPointer(test[t]).verdict = simple_result[t]
              /\ TwoPointer(test[t]).steps <= Len(test[t]) \div 2
        /\ HasResult(t) =>
              /\ TwoPointer(cleaned[t]).verdict = result[t]
              /\ TwoPointer(cleaned[t]).steps <= Len(cleaned[t]) \div 2

\* the walk passed two matching pairs before it met the mismatch
C10_Witness ==
    /\ pc[1] = "done"
    /\ test[1] = T_race_a_car
    /\ TwoPointer(cleaned[1]) = [verdict |-> FALSE, steps |-> 4]
    /\ result[1] = FALSE

====
